---- MODULE Spec2Model ----
(***************************************************************************)
(* The query-routing graph of the telecom assistant                        *)
(* (telecom_assistant/orchestration/graph.py) with the agent entry points  *)
(* its handler nodes call.  Text is kept as text: Python str values are    *)
(* TLA+ strings, and strip / lower / "in" are computed character by        *)
(* character.  Non-ASCII characters of the source templates are written    *)
(* in ASCII.                                                               *)
(***************************************************************************)
EXTENDS Integers, Sequences, FiniteSets, TLC

VARIABLES
    pc,            \* the node the compiled graph runs next
    state,         \* the TelecomAssistantState threaded through the nodes
    query_engine,  \* knowledge_agents._query_engine (process-wide singleton)
    llm_response,  \* classify_query: outcome of chain.invoke for this request
    handler_exc,   \* details of the exceptions raised below the handler node
    handled,       \* TRUE once a handler node took its except branch
    propagated,    \* detail of an exception that left graph.invoke, if any
    billing_call,  \* arguments of this request's process_billing_query call
    executed,      \* the nodes run so far by this graph.invoke, in order
    session,       \* st.session_state of one browser session
    auth,          \* authenticate_customer on its own: arguments and result
    request,       \* the state the chat handler last handed to graph.invoke
    worker,        \* position of each thread inside _ensure_query_engine
    kb,            \* knowledge_agents' other module globals, and what was built
    network_reply  \* autogen_node on its own: what process_network_query gave

aux == <<session, auth, request, worker, kb, network_reply>>

vars == <<pc, state, query_engine, llm_response, handler_exc, handled,
          propagated, billing_call, executed, session, auth, request, worker,
          kb, network_reply>>

----------------------------------------------------------------------------
(* Bounds *)

MaxPad == 1        \* whitespace characters around the classifier's answer

----------------------------------------------------------------------------
(* Python values *)

None == <<>>
Some(v) == <<v>>

EmptyDict == [k \in {} |-> ""]

dict_get(d, k, default) == IF k \in DOMAIN d THEN d[k] ELSE default

Whitespace == {" ", "\n", "\t"}

UpperAlpha == "ABCDEFGHIJKLMNOPQRSTUVWXYZ"
LowerAlpha == "abcdefghijklmnopqrstuvwxyz"

CharAt(s, i) == SubSeq(s, i, i)

lower_char(c) ==
    IF \E i \in 1..26 : CharAt(UpperAlpha, i) = c
    THEN CharAt(LowerAlpha, CHOOSE i \in 1..26 : CharAt(UpperAlpha, i) = c)
    ELSE c

upper_char(c) ==
    IF \E i \in 1..26 : CharAt(LowerAlpha, i) = c
    THEN CharAt(UpperAlpha, CHOOSE i \in 1..26 : CharAt(LowerAlpha, i) = c)
    ELSE c

RECURSIVE lower(_)
lower(s) == IF s = "" THEN "" ELSE lower_char(Head(s)) \o lower(Tail(s))

RECURSIVE upper(_)
upper(s) == IF s = "" THEN "" ELSE upper_char(Head(s)) \o upper(Tail(s))

capitalize(s) == IF s = "" THEN "" ELSE upper_char(Head(s)) \o Tail(s)

RECURSIVE lstrip(_)
lstrip(s) ==
    IF s # "" /\ Head(s) \in Whitespace THEN lstrip(Tail(s)) ELSE s

RECURSIVE rstrip(_)
rstrip(s) ==
    IF s # "" /\ CharAt(s, Len(s)) \in Whitespace
    THEN rstrip(SubSeq(s, 1, Len(s) - 1))
    ELSE s

strip(s) == rstrip(lstrip(s))

\* Python's  sub in s
Contains(s, sub) ==
    \E i \in 1..(Len(s) - Len(sub) + 1) : SubSeq(s, i, i + Len(sub) - 1) = sub

\* Python's  any(word in s for word in words)
any_in(words, s) == \E w \in words : Contains(s, w)

----------------------------------------------------------------------------
(* Inputs of a request and outcomes of the external calls *)

Pad(n) == UNION {[1..k -> {" ", "\n"}] : k \in 0..n}

RECURSIVE Join(_)
Join(t) == IF t = <<>> THEN "" ELSE Head(t) \o Join(Tail(t))

Pads == {Join(t) : t \in Pad(MaxPad)}

Queries ==
    {"", "hi", "Tell me a joke", "thanks, bye",
     "Why is my bill higher this month?", "My 5G is slow",
     "what about the weather", "see you later", "GOODBYE"}

\* customer_info as the caller of graph.invoke supplies it: the key may be
\* missing, its value may be None, or it is a dict (streamlit_app.py builds
\* one with the profile of the logged-in customer).
CustomerInfos ==
    { [kind |-> "absent", dict |-> EmptyDict],
      [kind |-> "none",   dict |-> EmptyDict],
      [kind |-> "dict",   dict |-> EmptyDict],
      [kind |-> "dict",   dict |-> [k \in {"customer_id", "name"} |->
                                      IF k = "customer_id" THEN "CUST001"
                                                           ELSE "Asha"]] }

ErrDetails == {"", "Request timed out."}

NoExc == <<>>

allowed ==
    {"billing_account", "network_troubleshooting", "service_recommendation",
     "knowledge_retrieval", "off_topic"}

\* what the classifier model may answer
RawAnswers ==
    allowed \cup {upper(l) : l \in allowed} \cup {capitalize(l) : l \in allowed}
    \cup {"", "billing", "billing account", "off_topic.", "unknown",
          "Category: billing_account", "off_topic\nbilling_account"}

LLMOutcomes ==
    {[kind |-> "ok", content |-> p \o a \o q] : p \in Pads, q \in Pads, a \in RawAnswers}
    \cup {[kind |-> "nonstr", content |-> ""]}
    \cup {[kind |-> "raise", content |-> e] : e \in ErrDetails}

NoResponse == [kind |-> "none", content |-> ""]

----------------------------------------------------------------------------
(* 1. classification node *)

classify_default == "knowledge_retrieval"

\* the answer lower-cased but not trimmed
normalize_untrimmed(content) == lower(content)

\* graph.py:78  response.content.strip().lower()
normalize(content) == lower(strip(content))

\* the model's answer taken as it is
coerce_unchecked(classification) == classification

\* graph.py:88-89
coerce(classification) ==
    IF classification \notin allowed THEN classify_default ELSE classification

\* an except branch that also reports the failure in the state
classify_except_reporting(st) ==
    [st EXCEPT !.classification = classify_default,
               !.error = Some("classification failed")]

\* the except branch, graph.py:95-97
classify_except(st) == [st EXCEPT !.classification = classify_default]

\* a classifier whose failure leaves the label the request came with
classify_query_unlabelled(st, outcome) ==
    IF outcome.kind = "ok"
    THEN [st EXCEPT !.classification = coerce(normalize(outcome.content))]
    ELSE st

\* graph.py:28-97
classify_query(st, outcome) ==
    IF outcome.kind = "ok"
    THEN [st EXCEPT !.classification = coerce(normalize(outcome.content))]
    ELSE classify_except(st)

----------------------------------------------------------------------------
(* 2. routing *)

mapping ==
    [l \in allowed |->
        CASE l = "billing_account"         -> "crew_ai_node"
          [] l = "network_troubleshooting" -> "autogen_node"
          [] l = "service_recommendation"  -> "langchain_node"
          [] l = "knowledge_retrieval"     -> "llamaindex_node"
          [] l = "off_topic"               -> "fallback_handler"]

\* an unknown label sent to the knowledge handler instead
route_query_default_knowledge(st) ==
    dict_get(mapping, dict_get(st, "classification", ""), "llamaindex_node")

\* graph.py:103-117
route_query(st) ==
    dict_get(mapping, dict_get(st, "classification", ""), "fallback_handler")

----------------------------------------------------------------------------
(* Outcomes of the calls a handler makes below the node *)

\* str(result) of crew.kickoff()
BillingTexts == {"", "Your bill is higher because of roaming charges this month."}

\* content of the solution_integrator message in the chat history
\* ("" when there is none)
IntegratorTexts ==
    {"", "Restart the phone.",
     "  SITUATION: weak signal at home. ACTIONS: restart the device and reset network settings.  "}

\* llm_output.content in process_service_query
PlanTexts == {"", "Recommended: Unlimited Max (PLAN05), unlimited data and roaming."}

\* answer text of the query engine
AnswerTexts == {"", "  ", "Open Settings > Mobile network and switch **VoLTE** on.\n"}

Outcome(kind, text) == [kind |-> kind, text |-> text]

BillingOutcomes ==
    {Outcome("ok", t) : t \in BillingTexts}
    \cup {Outcome(k, e) : k \in {"import_error", "raise"}, e \in ErrDetails}

NetworkOutcomes ==
    {Outcome("ok", t) : t \in IntegratorTexts}
    \cup {Outcome(k, e) : k \in {"import_error", "create_raise", "chat_raise"},
                          e \in ErrDetails}

ServiceOutcomes ==
    {Outcome("ok", t) : t \in PlanTexts}
    \cup {Outcome(k, e) : k \in {"import_error", "create_raise", "run_raise"},
                          e \in ErrDetails}

KnowledgeOutcomes ==
    {Outcome("ok", t) : t \in AnswerTexts}
    \cup {Outcome(k, e) : k \in {"import_error", "init_raise", "query_raise"},
                          e \in ErrDetails}

\* what a node hands back to the graph: a new state, or an exception that
\* leaves the node
Return(st) == [ok |-> TRUE, state |-> st, exc |-> "", handled |-> FALSE]
\* the same, from the node's except branch
Handled(st) == [ok |-> TRUE, state |-> st, exc |-> "", handled |-> TRUE]
Raise(st, e) == [ok |-> FALSE, state |-> st, exc |-> e, handled |-> FALSE]

dict_set(d, k, v) == [x \in (DOMAIN d) \cup {k} |-> IF x = k THEN v ELSE d[x]]

OneEntry(k, v) == [x \in {k} |-> v]

AttributeErrorNone == "'NoneType' object has no attribute 'get'"

\* state.get("customer_info", {})
get_customer_info(st) ==
    dict_get(st, "customer_info", [kind |-> "dict", dict |-> EmptyDict])

----------------------------------------------------------------------------
(* 3. billing node *)

\* graph.py:151-154
fail_msg(query) ==
    "Sorry, we encountered a billing system issue while processing: '" \o
    query \o
    "'. " \o
    "Our billing support team can assist further."

\* a failure branch that re-labels the request as off_topic
crew_ai_except_relabel(st, e) ==
    dict_set(dict_set(dict_set(st, "intermediate_responses",
                               OneEntry("crew_ai", fail_msg(st.query))),
                      "error", Some(e)),
             "classification", "off_topic")

\* graph.py:156-160
crew_ai_except(st, e) ==
    dict_set(dict_set(st, "intermediate_responses",
                      OneEntry("crew_ai", fail_msg(st.query))),
             "error", Some(e))

\* the default "N/A" that autogen_node uses
billing_customer_id_na(customer_info) ==
    dict_get(customer_info.dict, "customer_id", "N/A")

\* graph.py:128
billing_customer_id(customer_info) ==
    dict_get(customer_info.dict, "customer_id", "Unknown")

\* graph.py:135-139: the arguments process_billing_query is called with, or
\* None when the node does not get as far as the call
crew_ai_call(st, outcome) ==
    LET customer_info == get_customer_info(st) IN
    IF customer_info.kind = "none" \/ outcome.kind = "import_error"
    THEN None
    ELSE Some([customer_id |-> billing_customer_id(customer_info),
               query |-> st.query,
               customer_info |-> customer_info.dict])

crew_ai_node(st, outcome) ==
    LET customer_info == get_customer_info(st) IN
    IF customer_info.kind = "none"
    THEN Raise(st, AttributeErrorNone)
    ELSE IF outcome.kind = "ok"
         THEN Return(dict_set(st, "intermediate_responses",
                              OneEntry("crew_ai", outcome.text)))
         ELSE Handled(crew_ai_except(st, outcome.text))

----------------------------------------------------------------------------
(* 4. network node *)

\* network_agents.py:439-458
network_minimal_report ==
    "\nNETWORK TROUBLESHOOTING REPORT\n\nSITUATION\nWe reviewed your reported calling issue.\n\nFINDINGS\nWe could not generate a complete diagnostic report at this time.\n\nRECOMMENDED ACTIONS\n1. Turn Airplane Mode ON and OFF.\n2. Restart your device.\n3. Ensure mobile data and calling settings are enabled.\n4. Remove and reinsert your SIM card.\n5. Reset network settings if needed.\n6. If the problem continues, contact 198 for support.\n\nEXPECTED OUTCOME\nThese steps often resolve common calling issues. If the problem persists, our support team can assist with further checks.\n"

\* network_agents.py:462-482
network_hard_fallback(e) ==
    "\nNETWORK TROUBLESHOOTING REPORT\n\nSITUATION\nWe attempted to analyze your network issue but encountered a system problem.\n\nFINDINGS\nThe automated diagnostic could not be completed due to a technical error.\n\nRECOMMENDED ACTIONS\n1. Turn Airplane Mode ON and OFF.\n2. Restart your device.\n3. Ensure mobile data and calling settings are enabled.\n4. Remove and reinsert your SIM card.\n5. Reset network settings if needed.\n6. If the problem continues, contact 198 for support.\n\nEXPECTED OUTCOME\nThese steps typically resolve device-related issues. If the issue persists, our support team will assist you further.\nError reference: " \o
    e \o
    "\n"

\* network_agents.py:400-482
process_network_query(outcome) ==
    IF outcome.kind = "chat_raise"
    THEN strip(network_hard_fallback(outcome.text))
    ELSE IF Len(strip(outcome.text)) > 50
         THEN strip(outcome.text)
         ELSE strip(network_minimal_report)

\* graph.py:200-231
autogen_fallback(query, cid, e) ==
    "\nNETWORK TROUBLESHOOTING ANALYSIS\n\nREPORTED ISSUE:\n" \o
    query \o
    "\n\nSITUATION:\nWe encountered a technical issue while analyzing your network problem, but we can still provide general troubleshooting guidance.\n\nIMMEDIATE ACTIONS:\n1. Toggle Airplane Mode ON, wait 10 seconds, then toggle it OFF\n2. Restart your device completely\n3. Verify that mobile data is enabled in your device settings\n4. Remove and reinsert your SIM card carefully\n5. Reset network settings if the issue continues (Settings > Network > Reset)\n6. If none of these steps work, call our support team at 198\n\nADDITIONAL GUIDANCE:\n- Check if you're in an area with good network coverage\n- Move to a different location and test the connection\n- Ensure your device software is up to date\n- Try using WiFi calling if available on your plan\n\nEXPECTED OUTCOME:\nIf the issue is device-related, these steps should resolve it within 15-30 minutes. For persistent problems, our technical team at 198 can provide advanced diagnostics.\n\nSUPPORT CONTACT:\n- Customer Service: 198 (available 24/7)\n- Reference your Customer ID: " \o
    cid \o
    " when calling\n\nTechnical Note: " \o
    e \o
    "\n"

InvalidAutoGen == "Invalid or empty AutoGen response"

\* graph.py:185, for a str
invalid_report(final_report) == Len(strip(final_report)) < 20

\* graph.py:196-237
autogen_except(st, e) ==
    LET customer_info == get_customer_info(st) IN
    IF customer_info.kind = "none"
    THEN Raise(st, AttributeErrorNone)
    ELSE Handled(dict_set(dict_set(st, "intermediate_responses",
                    OneEntry("autogen",
                        autogen_fallback(st.query,
                            dict_get(customer_info.dict, "customer_id", "N/A"),
                            e))),
                "error", Some("AutoGen error: " \o e)))

\* what the call of process_network_query gives autogen_node: a str, a
\* value that is no str, or an exception
Reply(kind, text) == [kind |-> kind, text |-> text]

\* graph.py:177-237, from the reply of process_network_query on
autogen_on(st, reply) ==
    IF reply.kind = "raise"
    THEN autogen_except(st, reply.text)
    ELSE IF reply.kind # "str" \/ invalid_report(reply.text)
         THEN autogen_except(st, InvalidAutoGen)
         ELSE Return(dict_set(dict_set(st, "intermediate_responses",
                                       OneEntry("autogen", reply.text)),
                              "error", None))

\* the import (graph.py:179) and process_network_query (network_agents.py:
\* 400-482) under an outcome of the calls below them
network_reply_of(outcome) ==
    IF outcome.kind \in {"import_error", "create_raise"}
    THEN Reply("raise", outcome.text)
    ELSE Reply("str", process_network_query(outcome))

autogen_node(st, outcome) == autogen_on(st, network_reply_of(outcome))

----------------------------------------------------------------------------
(* 5. service node *)

\* service_agents.py:273-294
service_fb_joke(query) ==
    "\nASSISTANT RESPONSE\n\nYOUR MESSAGE:\n" \o
    query \o
    "\n\nRESPONSE:\nI appreciate your sense of humor! While I'd love to share a telecom joke, I'm specifically designed to help you with:\n\n- Service plan recommendations and comparisons\n- Network troubleshooting and connectivity issues  \n- Billing inquiries and usage questions\n- Account management and technical support\n\nHow can I assist you with your telecom needs today?\n\nEXAMPLES OF QUESTIONS I CAN HELP WITH:\n- \"What's the best plan for heavy data usage?\"\n- \"I can't make calls in my area, what should I do?\"\n- \"Why is my bill higher this month?\"\n- \"How do I upgrade my current plan?\"\n"

\* service_agents.py:297-320
service_fb_greeting ==
    "\nASSISTANT RESPONSE\n\nHello! Welcome to our Telecom Assistant.\n\nI'm here to help you with:\n\nSERVICE RECOMMENDATIONS:\n- Find the perfect plan for your needs\n- Compare plans based on data, voice, and SMS\n- Get recommendations for family or individual use\n\nNETWORK SUPPORT:\n- Troubleshoot connectivity issues\n- Check network coverage in your area\n- Fix call drops and signal problems\n\nBILLING & ACCOUNT:\n- Review your usage and charges\n- Understand your bill\n- Manage your account\n\nHow can I assist you today? Please describe your telecom-related question or concern.\n"

\* service_agents.py:323-334
service_fb_thanks ==
    "\nASSISTANT RESPONSE\n\nYou're welcome! I'm glad I could help.\n\nIs there anything else you'd like to know about:\n- Service plans and pricing\n- Network coverage or connectivity\n- Your account or billing\n\nFeel free to ask if you have more questions!\n"

\* service_agents.py:337-349
service_fb_goodbye ==
    "\nASSISTANT RESPONSE\n\nThank you for using our Telecom Assistant!\n\nIf you need help in the future with:\n- Choosing a service plan\n- Network troubleshooting\n- Billing questions\n- Account management\n\nDon't hesitate to reach out. Have a great day!\n"

\* service_agents.py:353-387
service_fb_general(query) ==
    "\nASSISTANT RESPONSE\n\nYOUR MESSAGE:\n" \o
    query \o
    "\n\nRESPONSE:\nI'm a specialized Telecom Assistant designed to help with telecom-related services. \nYour query doesn't appear to be related to telecommunications.\n\nI CAN HELP YOU WITH:\n\n1. SERVICE PLANS:\n   - Recommend plans based on your usage\n   - Compare different plan options\n   - Explain plan features and pricing\n\n2. NETWORK ISSUES:\n   - Troubleshoot connectivity problems\n   - Check coverage in your area\n   - Fix call drops and data issues\n\n3. BILLING & ACCOUNT:\n   - Review charges and usage\n   - Explain billing details\n   - Manage account settings\n\nPLEASE ASK ABOUT:\n- \"Which plan is best for my needs?\"\n- \"Why isn't my network working?\"\n- \"Can you explain my bill?\"\n- \"How do I change my plan?\"\n\nHow can I help you with your telecom services today?\n"

\* service_agents.py:251-389
handle_fallback_query(query) ==
    LET query_lower == lower(query)
        is_joke     == any_in({"joke", "funny", "humor", "laugh"}, query_lower)
        is_greeting == any_in({"hello", "hi", "hey", "good morning",
                               "good afternoon", "good evening"}, query_lower)
        is_thanks   == any_in({"thank", "thanks", "appreciate"}, query_lower)
        is_goodbye  == any_in({"bye", "goodbye", "see you", "later"}, query_lower)
    IN strip(IF is_joke THEN service_fb_joke(query)
             ELSE IF is_greeting THEN service_fb_greeting
             ELSE IF is_thanks THEN service_fb_thanks
             ELSE IF is_goodbye THEN service_fb_goodbye
             ELSE service_fb_general(query))

telecom_keywords ==
    {"plan", "package", "subscription", "service", "upgrade", "downgrade",
     "family plan", "unlimited", "data", "voice", "sms", "international",
     "roaming", "prepaid", "postpaid",
     "network", "signal", "coverage", "call", "internet", "wifi", "4g", "5g",
     "connection", "speed", "slow", "fast", "bandwidth", "tower", "outage",
     "bill", "billing", "charge", "payment", "cost", "price", "fee", "usage",
     "invoice", "balance", "due", "overcharge",
     "not working", "can't make calls", "no signal", "dropped call",
     "can't connect", "error", "problem", "issue", "troubleshoot",
     "account", "customer id", "phone number", "activate", "deactivate",
     "cancel", "renew", "contract"}

non_telecom_keywords ==
    {"joke", "funny", "story", "weather", "news", "sports", "movie",
     "recipe", "cooking", "game", "music", "book", "travel"}

greeting_only ==
    {"hi", "hello", "hey", "good morning", "good afternoon", "good evening",
     "bye", "goodbye", "thanks", "thank you"}

\* a test in which an off-topic word outweighs a telecom word
is_telecom_related_vetoed(query) ==
    LET query_lower == lower(query)
        has_telecom_keywords == any_in(telecom_keywords, query_lower)
        has_non_telecom == any_in(non_telecom_keywords, query_lower)
        is_greeting_only == strip(query_lower) \in greeting_only
    IN IF is_greeting_only THEN FALSE
       ELSE IF has_non_telecom THEN FALSE
       ELSE IF has_telecom_keywords THEN TRUE
       ELSE FALSE

\* service_agents.py:395-462
is_telecom_related(query) ==
    LET query_lower == lower(query)
        has_telecom_keywords == any_in(telecom_keywords, query_lower)
        has_non_telecom == any_in(non_telecom_keywords, query_lower)
        is_greeting_only == strip(query_lower) \in greeting_only
    IN IF is_greeting_only THEN FALSE
       ELSE IF has_non_telecom /\ ~has_telecom_keywords THEN FALSE
       ELSE IF has_telecom_keywords THEN TRUE
       ELSE FALSE

\* service_agents.py:220-234
service_response(query, result) ==
    "\n[*] **Service Recommendation**\n\n**Your Query:**  \n" \o
    query \o
    "\n\n---\n\n" \o
    result \o
    "\n\n---\n\nNeed help activating a plan?  \nVisit our store or contact customer support.\n"

\* service_agents.py:238-246
service_error(query, e, tb) ==
    "\n[x] ERROR IN SERVICE RECOMMENDATION\n\nQuery: " \o
    query \o
    "\nError: " \o
    e \o
    "\n\nDebug:\n" \o
    tb \o
    "\n"

\* traceback.format_exc() for an exception with detail e
format_exc(e) ==
    "Traceback (most recent call last):\n  File \"service_agents.py\", line 177, in process_service_query\nException: " \o e \o "\n"

\* graph.py:272-279
langchain_fallback(query) ==
    "\nI'm sorry! I couldn't generate a service recommendation due to an internal error.\n\nYour query was:\n" \o
    query \o
    "\n\nPlease try again or contact customer support.\n        "

\* service_agents.py:163-246; outcome.kind is "ok" or "run_raise" here
process_service_query(query, outcome) ==
    IF ~is_telecom_related(query)
    THEN handle_fallback_query(query)
    ELSE IF outcome.kind = "ok"
         THEN strip(service_response(query, outcome.text))
         ELSE service_error(query, outcome.text, format_exc(outcome.text))

\* a failure branch that adds its text next to what is already there,
\* under a key of its own
langchain_except_extra_key(st, e) ==
    dict_set(dict_set(st, "intermediate_responses",
                      dict_set(OneEntry("langchain", ""), "langchain_error",
                               langchain_fallback(st.query))),
             "error", Some(e))

\* graph.py:269-285
langchain_except(st, e) ==
    dict_set(dict_set(st, "intermediate_responses",
                      OneEntry("langchain", langchain_fallback(st.query))),
             "error", Some(e))

\* an exception reaches the node's try block only from _create_llm /
\* _create_sql_db, which process_service_query calls outside its own try
\* and only for a telecom-related query
langchain_node(st, outcome) ==
    LET customer_info == get_customer_info(st) IN
    IF outcome.kind = "import_error"
    THEN Raise(st, outcome.text)
    ELSE IF customer_info.kind = "none"
    THEN Raise(st, AttributeErrorNone)
    ELSE IF outcome.kind = "create_raise" /\ is_telecom_related(st.query)
    THEN Handled(langchain_except(st, outcome.text))
    ELSE Return(dict_set(dict_set(st, "intermediate_responses",
                    OneEntry("langchain",
                             process_service_query(st.query, outcome))),
                "error", None))

----------------------------------------------------------------------------
(* 6. knowledge node *)

Engine == Some("engine")

\* knowledge_agents.py:147-151
no_answer_text ==
    "I apologize, but I couldn't find relevant information in our " \o
    "documentation to answer your question. Please contact customer " \o
    "support at 198 for assistance."

\* knowledge_agents.py:156-160
kb_unavailable_text ==
    "I apologize, but I'm currently unable to access our knowledge base. " \o
    "Please try again in a moment, or contact customer support at 198 " \o
    "for immediate assistance."

\* knowledge_agents.py:64-85: the engine after the call
ensure_query_engine(engine, outcome) ==
    IF engine # None THEN engine
    ELSE IF outcome.kind = "init_raise" THEN None
    ELSE Engine

\* knowledge_agents.py:114-160; outcome.kind is "ok", "init_raise" or
\* "query_raise" here
process_knowledge_query(engine, outcome) ==
    IF ensure_query_engine(engine, outcome) = None
    THEN kb_unavailable_text
    ELSE IF outcome.kind = "query_raise"
    THEN kb_unavailable_text
    ELSE LET answer_text == IF outcome.text # "" THEN strip(outcome.text)
                            ELSE outcome.text
         IN IF answer_text # "" THEN answer_text ELSE no_answer_text

llamaindex_error_text == "Error querying technical documentation."

\* graph.py:291-314
llamaindex_node(st, engine, outcome) ==
    IF outcome.kind = "import_error"
    THEN Handled(dict_set(st, "intermediate_responses",
                          OneEntry("llamaindex", llamaindex_error_text)))
    ELSE Return(dict_set(st, "intermediate_responses",
                         OneEntry("llamaindex",
                                  process_knowledge_query(engine, outcome))))

----------------------------------------------------------------------------
(* 7. fallback node *)

\* graph.py:329-361
fallback_joke ==
    "\nAPPRECIATE YOUR INTEREST\n\nI appreciate the lighter moment, but I'm specifically designed to help with telecom services!\n\nHere's what I can assist you with:\n\nBILLING & PAYMENTS:\n- View your bills and payment history\n- Understand charges and fees\n- Set up payment plans\n- Check outstanding balances\n\nNETWORK ISSUES:\n- Diagnose connectivity problems\n- Check coverage in your area\n- Troubleshoot slow speeds\n- Report network outages\n\nPLAN RECOMMENDATIONS:\n- Find the best plan for your needs\n- Compare data packages\n- International roaming options\n- Family and group plans\n\nTECHNICAL SUPPORT:\n- Device setup and configuration\n- APN settings\n- VoLTE and VoWiFi setup\n- Feature activation\n\nHow can I help you with your telecom needs today?\n"

\* graph.py:364-392
fallback_greeting ==
    "\nHELLO AND WELCOME\n\nThank you for reaching out! I'm your Telecom Service Assistant, here to help you with all your mobile service needs.\n\nI CAN HELP YOU WITH:\n\n1. BILLING QUESTIONS\n   - Review your bill\n   - Explain charges\n   - Payment assistance\n\n2. NETWORK PROBLEMS\n   - Signal issues\n   - Slow internet\n   - Coverage concerns\n\n3. PLAN RECOMMENDATIONS\n   - Find better plans\n   - Upgrade options\n   - Data packages\n\n4. TECHNICAL SUPPORT\n   - Device settings\n   - Feature activation\n   - Troubleshooting\n\nWhat would you like assistance with today?\n"

\* graph.py:395-414
fallback_thanks ==
    "\nYOU'RE WELCOME\n\nThank you for using our Telecom Service Assistant! I'm glad I could help.\n\nNEED MORE HELP?\n\nFeel free to ask if you have any other questions about:\n- Your bill or account\n- Network connectivity\n- Service plans\n- Technical support\n\nSUPPORT CONTACTS:\n- Customer Service: 198\n- Technical Support: Available 24/7\n- Website: www.telecom.com\n\nHave a great day!\n"

\* graph.py:418-452
fallback_generic ==
    "\nQUERY NOT RECOGNIZED\n\nI'm specialized in telecom services and may not be able to help with that particular request.\n\nI CAN ASSIST YOU WITH:\n\nBILLING & ACCOUNT MANAGEMENT:\n- Bill inquiries and explanations\n- Payment plans and history\n- Account settings and updates\n\nNETWORK TROUBLESHOOTING:\n- Signal and connectivity issues\n- Coverage quality checks\n- Speed and performance problems\n\nSERVICE RECOMMENDATIONS:\n- Plan comparisons and suggestions\n- Data package options\n- International roaming plans\n\nTECHNICAL DOCUMENTATION:\n- Device configuration guides\n- Feature setup instructions\n- APN and network settings\n\nPlease ask me a question related to these telecom services, and I'll be happy to help!\n\nEXAMPLES:\n- \"Why is my bill higher this month?\"\n- \"I have poor signal at home, can you help?\"\n- \"What's the best plan for heavy data usage?\"\n- \"How do I enable VoLTE on my device?\"\n"

\* the greeting list without its shortest word
fallback_response_no_hi(query) ==
    IF any_in({"joke", "funny", "laugh", "humor"}, query)
    THEN fallback_joke
    ELSE IF any_in({"hello", "hey", "good morning", "good afternoon",
                    "good evening"}, query)
    THEN fallback_greeting
    ELSE IF any_in({"thank", "thanks", "appreciate", "goodbye", "bye",
                    "see you"}, query)
    THEN fallback_thanks
    ELSE fallback_generic

\* the greeting rule tried before the joke rule
fallback_response_greeting_first(query) ==
    IF any_in({"hello", "hi", "hey", "good morning", "good afternoon",
               "good evening"}, query)
    THEN fallback_greeting
    ELSE IF any_in({"joke", "funny", "laugh", "humor"}, query)
    THEN fallback_joke
    ELSE IF any_in({"thank", "thanks", "appreciate", "goodbye", "bye",
                    "see you"}, query)
    THEN fallback_thanks
    ELSE fallback_generic

\* graph.py:320-454
fallback_response(query) ==
    IF any_in({"joke", "funny", "laugh", "humor"}, query)
    THEN fallback_joke
    ELSE IF any_in({"hello", "hi", "hey", "good morning", "good afternoon",
                    "good evening"}, query)
    THEN fallback_greeting
    ELSE IF any_in({"thank", "thanks", "appreciate", "goodbye", "bye",
                    "see you"}, query)
    THEN fallback_thanks
    ELSE fallback_generic

\* a node that matches the query as typed
fallback_handler_cased(st) ==
    Return(dict_set(st, "intermediate_responses",
                    OneEntry("fallback", fallback_response(st.query))))

\* a node that writes its lower-cased copy of the query back
fallback_handler_lowering(st) ==
    Return(dict_set(dict_set(st, "query", lower(st.query)),
                    "intermediate_responses",
                    OneEntry("fallback", fallback_response(lower(st.query)))))

fallback_handler(st) ==
    Return(dict_set(st, "intermediate_responses",
                    OneEntry("fallback", fallback_response(lower(st.query)))))

----------------------------------------------------------------------------
(* 8. response formulation *)

placeholder == "I couldn't generate a response."

\* next(iter(responses.values())): the dicts the nodes build have one entry
first_value(responses) == responses[CHOOSE k \in DOMAIN responses : TRUE]

\* no placeholder: nothing to show when no handler left a text
base_text_no_placeholder(responses) ==
    IF DOMAIN responses # {} THEN first_value(responses) ELSE ""

\* graph.py:463-467
base_text(responses) ==
    IF DOMAIN responses # {} THEN first_value(responses) ELSE placeholder

\* the handler text without the marker
untagged(final, classification) == final

\* graph.py:471
tagged(final, classification) ==
    final \o "\n\n*Query Type: " \o classification \o "*"

\* a formulator that empties intermediate_responses once it has used them
formulate_response_clearing(st) ==
    LET responses == dict_get(st, "intermediate_responses", EmptyDict)
        classification == dict_get(st, "classification", "unknown")
    IN dict_set(dict_set(st, "final_response",
                         tagged(base_text(responses), classification)),
                "intermediate_responses", EmptyDict)

formulate_response(st) ==
    LET responses == dict_get(st, "intermediate_responses", EmptyDict)
        classification == dict_get(st, "classification", "unknown")
    IN dict_set(st, "final_response",
                tagged(base_text(responses), classification))

----------------------------------------------------------------------------
(* 9. the compiled graph and its caller *)

HandlerNodes ==
    {"crew_ai_node", "autogen_node", "langchain_node", "llamaindex_node",
     "fallback_handler"}

entry_point == "classify_query"

\* an edge from the billing node into the network node
edges_chained ==
    [n \in HandlerNodes \cup {"formulate_response"} |->
        IF n = "formulate_response" THEN "END"
        ELSE IF n = "crew_ai_node" THEN "autogen_node"
        ELSE "formulate_response"]

\* a billing node that sends the request back to classification
edges_retry ==
    [n \in HandlerNodes \cup {"formulate_response"} |->
        IF n = "formulate_response" THEN "END"
        ELSE IF n = "crew_ai_node" THEN "classify_query"
        ELSE "formulate_response"]

\* graph.py:507-513
edges ==
    [n \in HandlerNodes \cup {"formulate_response"} |->
        IF n = "formulate_response" THEN "END" ELSE "formulate_response"]

\* streamlit_app.py:168-182; a caller without customer context leaves the
\* key out
initial_state(prompt, customer_info) ==
    LET base == [query |-> prompt,
                 classification |-> "",
                 intermediate_responses |-> EmptyDict,
                 final_response |-> "",
                 chat_history |-> <<>>,
                 error |-> None]
    IN IF customer_info.kind = "absent" THEN base
       ELSE dict_set(base, "customer_info", customer_info)

\* the exception, if any, that the call below the node raised
backend_exc(node, st, engine, outcome) ==
    LET none_info == get_customer_info(st).kind = "none" IN
    CASE node = "crew_ai_node" ->
            IF ~none_info /\ outcome.kind # "ok" THEN Some(outcome.text) ELSE NoExc
      [] node = "autogen_node" ->
            IF outcome.kind # "ok" THEN Some(outcome.text) ELSE NoExc
      [] node = "langchain_node" ->
            IF outcome.kind = "import_error" THEN Some(outcome.text)
            ELSE IF ~none_info /\ outcome.kind # "ok" /\ is_telecom_related(st.query)
                 THEN Some(outcome.text) ELSE NoExc
      [] node = "llamaindex_node" ->
            IF outcome.kind = "import_error" THEN Some(outcome.text)
            ELSE IF outcome.kind = "init_raise" /\ engine = None THEN Some(outcome.text)
            ELSE IF outcome.kind = "query_raise" THEN Some(outcome.text)
            ELSE NoExc
      [] OTHER -> NoExc

----------------------------------------------------------------------------
(* utils/database.py: the customers table and the login lookup *)

Row(customer_id, name, plan_id) ==
    [customer_id |-> customer_id,
     name |-> name,
     email |-> lower(name) \o "@example.com",
     phone |-> "555-0100",
     plan_id |-> plan_id,
     status |-> "active"]

Asha == Row("CUST001", "Asha", "PLAN05")
Ravi == Row("CUST002", "Ravi", "PLAN01")
\* a customer whose identifier is a casing of the admin sentinel
Eve == Row("Admin", "Eve", "PLAN01")

\* the database as a call finds it: reachable or not, and its rows
Database(ok, customers) == [ok |-> ok, customers |-> customers]

Tables == {{}, {Asha}, {Asha, Ravi}, {Asha, Eve}}

Databases == {Database(ok, t) : ok \in BOOLEAN, t \in Tables}

\* database.py:8-33; the WHERE clause compares with SQLite's default
\* (binary) collation, and any exception gives None
get_customer_by_id(db, customer_id) ==
    IF ~db.ok THEN None
    ELSE LET rows == {r \in db.customers : r.customer_id = customer_id}
         IN IF rows = {} THEN None ELSE Some(CHOOSE r \in rows : TRUE)

\* database.py:43-51
admin_profile ==
    [customer_id |-> "admin",
     name |-> "Administrator",
     email |-> "admin@telecom.com",
     phone |-> "N/A",
     plan_id |-> "N/A",
     status |-> "admin",
     user_type |-> "admin"]

\* database.py:56
tag_customer(customer) ==
    [k \in (DOMAIN customer) \cup {"user_type"} |->
        IF k = "user_type" THEN "customer" ELSE customer[k]]

\* a sentinel test that does not fold the case
is_admin_exact(customer_id) == customer_id = "admin"

\* database.py:42
is_admin(customer_id) == lower(customer_id) = "admin"

\* database.py:36-59
authenticate_customer(db, customer_id) ==
    IF is_admin(customer_id)
    THEN Some(admin_profile)
    ELSE LET customer == get_customer_by_id(db, customer_id)
         IN IF customer # None THEN Some(tag_customer(customer[1])) ELSE None

\* how many times authenticate_customer runs get_customer_by_id
authenticate_lookups(customer_id) == IF is_admin(customer_id) THEN 0 ELSE 1

\* the record kept of a call
AuthCall(db, customer_id) ==
    Some([customer_id |-> customer_id,
          db |-> db,
          lookups |-> authenticate_lookups(customer_id),
          result |-> authenticate_customer(db, customer_id)])

\* streamlit_app.py:29-46
initial_session ==
    [authenticated |-> FALSE,
     user_type |-> None,
     customer_id |-> None,
     name |-> None,
     email |-> None,
     phone |-> None,
     plan_id |-> None,
     chat_history |-> <<>>,
     graph |-> None]

Threads == {"t1", "t2"}

\* knowledge_agents.py:24-27, and counters of what the threads did
initial_kb ==
    [chroma_client |-> None,
     vector_store |-> None,
     index |-> None,
     calls |-> 0,
     clients_created |-> 0,
     engines_created |-> 0,
     replaced |-> FALSE,
     replaced_in_use |-> FALSE]

InitAux ==
    /\ session = initial_session
    /\ auth = None
    /\ request = None
    /\ worker = [t \in Threads |-> "idle"]
    /\ kb = initial_kb
    /\ network_reply = None

Init ==
    /\ InitAux
    /\ pc = "idle"
    /\ state = EmptyDict
    /\ query_engine = None
    /\ llm_response = NoResponse
    /\ handler_exc = NoExc
    /\ handled = FALSE
    /\ propagated = NoExc
    /\ billing_call = None
    /\ executed = <<>>

\* graph.invoke(initial_state)
Invoke ==
    /\ UNCHANGED aux
    /\ pc \in {"idle", "END", "raised"}
    /\ \E prompt \in Queries, customer_info \in CustomerInfos :
          state' = initial_state(prompt, customer_info)
    /\ pc' = entry_point
    /\ llm_response' = NoResponse
    /\ handler_exc' = NoExc
    /\ handled' = FALSE
    /\ propagated' = NoExc
    /\ billing_call' = None
    /\ executed' = <<>>
    /\ UNCHANGED query_engine

ClassifyQuery ==
    /\ UNCHANGED aux
    /\ pc = "classify_query"
    /\ \E outcome \in LLMOutcomes :
          /\ llm_response' = outcome
          /\ state' = classify_query(state, outcome)
    /\ pc' = "route_query"
    /\ executed' = Append(executed, "classify_query")
    /\ UNCHANGED <<query_engine, handler_exc, handled, propagated, billing_call>>

\* the conditional edge out of classify_query, graph.py:494-504
RouteQuery ==
    /\ UNCHANGED aux
    /\ pc = "route_query"
    /\ pc' = route_query(state)
    /\ llm_response' = NoResponse
    /\ UNCHANGED <<state, query_engine, handler_exc, handled, propagated,
                   billing_call, executed>>

\* what the graph does with the result of a handler node
Step(node, result) ==
    /\ executed' = Append(executed, node)
    /\ handled' = result.handled
    /\ IF result.ok
       THEN /\ state' = result.state
            /\ pc' = edges[node]
            /\ propagated' = NoExc
       ELSE /\ state' = state
            /\ pc' = "raised"
            /\ propagated' = Some(result.exc)

CrewAI ==
    /\ UNCHANGED aux
    /\ pc = "crew_ai_node"
    /\ \E outcome \in BillingOutcomes :
          /\ Step("crew_ai_node", crew_ai_node(state, outcome))
          /\ handler_exc' = backend_exc("crew_ai_node", state, query_engine, outcome)
          /\ billing_call' = crew_ai_call(state, outcome)
    /\ UNCHANGED <<query_engine, llm_response>>

AutoGen ==
    /\ UNCHANGED aux
    /\ pc = "autogen_node"
    /\ \E outcome \in NetworkOutcomes :
          /\ Step("autogen_node", autogen_node(state, outcome))
          /\ handler_exc' = backend_exc("autogen_node", state, query_engine, outcome)
    /\ UNCHANGED <<query_engine, llm_response, billing_call>>

LangChain ==
    /\ UNCHANGED aux
    /\ pc = "langchain_node"
    /\ \E outcome \in ServiceOutcomes :
          /\ Step("langchain_node", langchain_node(state, outcome))
          /\ handler_exc' = backend_exc("langchain_node", state, query_engine, outcome)
    /\ UNCHANGED <<query_engine, llm_response, billing_call>>

LlamaIndex ==
    /\ UNCHANGED aux
    /\ pc = "llamaindex_node"
    /\ \E outcome \in KnowledgeOutcomes :
          /\ outcome.kind = "init_raise" => query_engine = None
          /\ Step("llamaindex_node", llamaindex_node(state, query_engine, outcome))
          /\ handler_exc' = backend_exc("llamaindex_node", state, query_engine, outcome)
          /\ query_engine' = IF outcome.kind = "import_error" THEN query_engine
                             ELSE ensure_query_engine(query_engine, outcome)
    /\ UNCHANGED <<llm_response, billing_call>>

Fallback ==
    /\ UNCHANGED aux
    /\ pc = "fallback_handler"
    /\ Step("fallback_handler", fallback_handler(state))
    /\ UNCHANGED <<query_engine, llm_response, handler_exc, billing_call>>

FormulateResponse ==
    /\ UNCHANGED aux
    /\ pc = "formulate_response"
    /\ state' = formulate_response(state)
    /\ pc' = edges["formulate_response"]
    /\ executed' = Append(executed, "formulate_response")
    /\ UNCHANGED <<query_engine, llm_response, handler_exc, handled, propagated,
                   billing_call>>

Next ==
    \/ Invoke
    \/ ClassifyQuery
    \/ RouteQuery
    \/ CrewAI
    \/ AutoGen
    \/ LangChain
    \/ LlamaIndex
    \/ Fallback
    \/ FormulateResponse

Spec == Init /\ [][Next]_vars

----------------------------------------------------------------------------
(* one request run to its end: graph.invoke has just been called *)

LiveQueries == {"hi", "My 5G is slow"}

InitLive ==
    /\ InitAux
    /\ pc = entry_point
    /\ state \in {initial_state(q, ci) : q \in LiveQueries, ci \in CustomerInfos}
    /\ query_engine = None
    /\ llm_response = NoResponse
    /\ handler_exc = NoExc
    /\ handled = FALSE
    /\ propagated = NoExc
    /\ billing_call = None
    /\ executed = <<>>

\* the nodes of the graph
RunNode ==
    \/ ClassifyQuery
    \/ RouteQuery
    \/ CrewAI
    \/ AutoGen
    \/ LangChain
    \/ LlamaIndex
    \/ Fallback
    \/ FormulateResponse

\* the compiled graph runs a started request on: the node that is due is
\* run, given that the calls below it return or raise
SpecLive == InitLive /\ [][RunNode]_vars /\ WF_vars(RunNode)

TypeOK ==
    /\ pc \in {"idle", "classify_query", "route_query", "formulate_response",
               "END", "raised"} \cup HandlerNodes
    /\ query_engine \in {None, Engine}

----------------------------------------------------------------------------
(* ui/streamlit_app.py: one browser session.  Every action is one run of   *)
(* the script: the widget's handler and, after st.rerun(), the page body.  *)
(* graph.invoke runs inside the chat handler; its state is a local of that *)
(* run and is gone when the run ends.                                      *)

MaxTurns == 2      \* chat submissions kept in one chat_history

\* the rows of data/telecom.db in the session specification
CustomersTable == {Asha, Ravi}

\* text typed into the Customer ID box
LoginInputs == {"", " ", "CUST001", " CUST002\n", "cust001", "CUST999", "Admin"}

\* text typed into the chat box
SessionPrompts == {"hi", "Why is my bill higher this month?"}

\* answers of the classifier in the session specification
SessionLLMOutcomes ==
    {[kind |-> "ok", content |-> a] :
        a \in {"billing_account", "service_recommendation"}}

Graph == Some("graph")

\* streamlit_app.py:12-19 and 137-144: the page body of a logged-in
\* customer builds the graph when the session has none
load_graph(ss, ok) ==
    IF ss.authenticated /\ ss.user_type = "customer" /\ ss.graph = None
    THEN [ss EXCEPT !.graph = IF ok THEN Graph ELSE None]
    ELSE ss

\* streamlit_app.py:64-84
login(ss, user_info) ==
    IF user_info # None
    THEN [ss EXCEPT !.authenticated = TRUE,
                    !.user_type = user_info[1].user_type,
                    !.customer_id = user_info[1].customer_id,
                    !.name = user_info[1].name,
                    !.email = user_info[1].email,
                    !.phone = user_info[1].phone,
                    !.plan_id = user_info[1].plan_id]
    ELSE ss

\* a logout that keeps the conversation
logout_keeping_chat(ss) ==
    [ss EXCEPT !.authenticated = FALSE,
               !.user_type = None,
               !.customer_id = None,
               !.name = None,
               !.email = None,
               !.phone = None,
               !.plan_id = None]

\* streamlit_app.py:109-120
logout(ss) ==
    [ss EXCEPT !.authenticated = FALSE,
               !.user_type = None,
               !.customer_id = None,
               !.name = None,
               !.email = None,
               !.phone = None,
               !.plan_id = None,
               !.chat_history = <<>>]

\* streamlit_app.py:170-176
ui_customer_info(ss) ==
    [kind |-> "dict",
     dict |-> [customer_id |-> ss.customer_id,
               name |-> ss.name,
               email |-> ss.email,
               phone |-> ss.phone,
               plan_id |-> ss.plan_id]]

\* an initial state that starts from the answer shown last
ui_initial_state_stale(prompt, ss) ==
    [initial_state(prompt, ui_customer_info(ss))
        EXCEPT !.chat_history = ss.chat_history,
               !.final_response =
                   IF Len(ss.chat_history) >= 2
                   THEN ss.chat_history[Len(ss.chat_history) - 1].content
                   ELSE ""]

\* streamlit_app.py:168-182
ui_initial_state(prompt, ss) ==
    [initial_state(prompt, ui_customer_info(ss))
        EXCEPT !.chat_history = ss.chat_history]

\* the outcomes the call below a node can have
NodeOutcomes(node, engine) ==
    CASE node = "crew_ai_node" -> BillingOutcomes
      [] node = "autogen_node" -> NetworkOutcomes
      [] node = "langchain_node" -> ServiceOutcomes
      [] node = "llamaindex_node" ->
            {o \in KnowledgeOutcomes : o.kind = "init_raise" => engine = None}
      [] OTHER -> {Outcome("ok", "")}

\* the same in the session specification: calls that answer or fail with text
SessionOutcomes(node, engine) ==
    {o \in NodeOutcomes(node, engine) : o.text # ""}

run_node(node, st, engine, outcome) ==
    CASE node = "crew_ai_node" -> crew_ai_node(st, outcome)
      [] node = "autogen_node" -> autogen_node(st, outcome)
      [] node = "langchain_node" -> langchain_node(st, outcome)
      [] node = "llamaindex_node" -> llamaindex_node(st, engine, outcome)
      [] OTHER -> fallback_handler(st)

\* graph.invoke: the nodes of the compiled graph run one after another
graph_invoke(st, engine, llm, outcome) ==
    LET classified == classify_query(st, llm)
        result == run_node(route_query(classified), classified, engine, outcome)
    IN IF result.ok THEN Return(formulate_response(result.state)) ELSE result

Message(role, content) == [role |-> role, content |-> content]

no_final_response == "I apologize, but I couldn't process your request."

\* streamlit_app.py:198
error_msg(e) == "Error processing your request: " \o e

\* streamlit_app.py:185-203: what the handler appends after graph.invoke
assistant_message(result) ==
    IF result.ok
    THEN <<Message("assistant",
                   dict_get(result.state, "final_response", no_final_response))>>
    ELSE <<Message("assistant", error_msg(result.exc))>>

UserTurns(history) ==
    Cardinality({i \in 1..Len(history) : history[i].role = "user"})

SessionUnchanged ==
    UNCHANGED <<llm_response, handler_exc, handled, billing_call, executed,
                worker, kb, network_reply>>

\* the Login button
Login ==
    /\ ~session.authenticated
    /\ \E customer_id \in LoginInputs, db_ok \in BOOLEAN, graph_ok \in BOOLEAN :
          IF strip(customer_id) # ""
          THEN LET db == Database(db_ok, CustomersTable) IN
               session' = load_graph(
                      login(session, authenticate_customer(db, strip(customer_id))),
                      graph_ok)
          ELSE UNCHANGED session
    /\ UNCHANGED <<pc, state, query_engine, propagated, request, auth>>
    /\ SessionUnchanged

\* the Logout button
Logout ==
    /\ session.authenticated
    /\ session' = logout(session)
    /\ UNCHANGED <<pc, state, query_engine, propagated, request, auth>>
    /\ SessionUnchanged

\* the Clear Chat History button of the customer dashboard
ClearChat ==
    /\ session.authenticated
    /\ session.user_type = "customer"
    /\ \E graph_ok \in BOOLEAN :
          session' = load_graph([session EXCEPT !.chat_history = <<>>], graph_ok)
    /\ UNCHANGED <<pc, state, query_engine, propagated, request, auth>>
    /\ SessionUnchanged

\* a chat submission, streamlit_app.py:137-203
Chat ==
    /\ session.authenticated
    /\ session.user_type = "customer"
    /\ UserTurns(session.chat_history) < MaxTurns
    /\ \E prompt \in SessionPrompts, graph_ok \in BOOLEAN :
          LET loaded == load_graph(session, graph_ok)
              asked == [loaded EXCEPT !.chat_history =
                           Append(@, Message("user", prompt))]
          IN IF asked.graph = None
             THEN /\ session' = asked
                  /\ UNCHANGED <<query_engine, request>>
             ELSE \E llm \in SessionLLMOutcomes :
                  LET st == ui_initial_state(prompt, asked)
                      node == route_query(classify_query(st, llm))
                  IN \E outcome \in SessionOutcomes(node, query_engine) :
                     LET result == graph_invoke(st, query_engine, llm, outcome) IN
                     /\ request' = Some(st)
                     /\ query_engine' =
                           IF node = "llamaindex_node" /\ outcome.kind # "import_error"
                           THEN ensure_query_engine(query_engine, outcome)
                           ELSE query_engine
                     /\ session' = [asked EXCEPT !.chat_history =
                                       @ \o assistant_message(result)]
    /\ UNCHANGED <<pc, state, propagated, auth>>
    /\ SessionUnchanged

NextSession ==
    \/ Login
    \/ Logout
    \/ ClearChat
    \/ Chat

SpecSession == Init /\ [][NextSession]_vars

----------------------------------------------------------------------------
(* agents/knowledge_agents.py: process_knowledge_query called from the     *)
(* script threads of two browser sessions of one server process.  Each     *)
(* action is one statement of _ensure_query_engine run by one thread; the  *)
(* module globals are shared and no lock is taken.                         *)

MaxCalls == 3      \* calls of process_knowledge_query in one behaviour

At(t, label) == [worker EXCEPT ![t] = label]

KbUnchanged ==
    UNCHANGED <<pc, state, llm_response, handler_exc, handled, propagated,
                billing_call, executed, session, auth, request, network_reply>>

\* knowledge_agents.py:119  process_knowledge_query enters its try
KbCall(t) ==
    /\ worker[t] = "idle"
    /\ kb.calls < MaxCalls
    /\ worker' = At(t, "check")
    /\ kb' = [kb EXCEPT !.calls = @ + 1]
    /\ UNCHANGED query_engine
    /\ KbUnchanged

\* knowledge_agents.py:68  if _query_engine is not None: return
engine_ready(engine) == engine # None

KbCheck(t) ==
    /\ worker[t] = "check"
    /\ worker' = At(t, IF engine_ready(query_engine) THEN "query" ELSE "client")
    /\ UNCHANGED <<query_engine, kb>>
    /\ KbUnchanged

\* knowledge_agents.py:71-78: settings, the path test, the client and the
\* collection; the path test and the collection lookup may raise
KbClient(t) ==
    /\ worker[t] = "client"
    /\ \E ok \in BOOLEAN :
          IF ok
          THEN /\ kb' = [kb EXCEPT !.chroma_client = Some(t),
                                   !.clients_created = @ + 1]
               /\ worker' = At(t, "store")
          ELSE /\ worker' = At(t, "except")
               /\ UNCHANGED kb
    /\ UNCHANGED query_engine
    /\ KbUnchanged

\* knowledge_agents.py:80
KbStore(t) ==
    /\ worker[t] = "store"
    /\ kb' = [kb EXCEPT !.vector_store = Some(t)]
    /\ worker' = At(t, "index")
    /\ UNCHANGED query_engine
    /\ KbUnchanged

\* knowledge_agents.py:81
KbIndex(t) ==
    /\ worker[t] = "index"
    /\ kb' = [kb EXCEPT !.index = Some(t)]
    /\ worker' = At(t, "engine")
    /\ UNCHANGED query_engine
    /\ KbUnchanged

\* knowledge_agents.py:82-85
KbEngine(t) ==
    /\ worker[t] = "engine"
    /\ query_engine' = Engine
    /\ kb' = [kb EXCEPT !.engines_created = @ + 1,
                        !.replaced = @ \/ query_engine # None,
                        !.replaced_in_use =
                            @ \/ \E u \in Threads \ {t} : worker[u] = "query"]
    /\ worker' = At(t, "query")
    /\ KbUnchanged

\* knowledge_agents.py:138-152  _query_engine.query(...) and the return
KbQuery(t) ==
    /\ worker[t] = "query"
    /\ worker' = At(t, "idle")
    /\ UNCHANGED <<query_engine, kb>>
    /\ KbUnchanged

\* knowledge_agents.py:154-160  the except branch of process_knowledge_query
KbExcept(t) ==
    /\ worker[t] = "except"
    /\ worker' = At(t, "idle")
    /\ UNCHANGED <<query_engine, kb>>
    /\ KbUnchanged

NextEngine ==
    \E t \in Threads :
        \/ KbCall(t)
        \/ KbCheck(t)
        \/ KbClient(t)
        \/ KbStore(t)
        \/ KbIndex(t)
        \/ KbEngine(t)
        \/ KbQuery(t)
        \/ KbExcept(t)

SpecEngine == Init /\ [][NextEngine]_vars

----------------------------------------------------------------------------
(* fallback_handler on its own: queries that match none, one or several of *)
(* its keyword lists                                                       *)

FallbackQueries ==
    {"", "what about the weather", "Tell me a joke", "LAUGH",
     "hey, tell me a joke", "Hello! Know a funny one? Thanks",
     "thanks for the laugh", "a joke, then bye", "hello", "Good Morning",
     "hey, thank you", "hello and goodbye", "thanks, bye", "I appreciate it",
     "see you later", "GOODBYE", "by the way"}

InitFallback ==
    /\ InitAux
    /\ pc = "fallback_handler"
    /\ state \in {dict_set(initial_state(q, ci), "classification", "off_topic") :
                     q \in FallbackQueries, ci \in CustomerInfos}
    /\ query_engine = None
    /\ llm_response = NoResponse
    /\ handler_exc = NoExc
    /\ handled = FALSE
    /\ propagated = NoExc
    /\ billing_call = None
    /\ executed = <<"classify_query">>

NextFallback == Fallback

SpecFallback == InitFallback /\ [][NextFallback]_vars

----------------------------------------------------------------------------
(* autogen_node on its own: every kind of reply of process_network_query   *)

ReplyTexts ==
    {"", "  \n", "OK", "1234567890123456789", "12345678901234567890",
     "  1234567890123456789  ", " 12345678901234567890\n",
     "SITUATION: weak signal at home. ACTIONS: restart the device."}

NetworkReplies ==
    {Reply("str", t) : t \in ReplyTexts}
    \cup {Reply("nonstr", "")}
    \cup {Reply("raise", e) : e \in ErrDetails}

InitAutoGen ==
    /\ pc = "autogen_node"
    /\ state \in {dict_set(initial_state(q, ci), "classification",
                            "network_troubleshooting") :
                     q \in Queries, ci \in CustomerInfos}
    /\ query_engine = None
    /\ llm_response = NoResponse
    /\ handler_exc = NoExc
    /\ handled = FALSE
    /\ propagated = NoExc
    /\ billing_call = None
    /\ executed = <<"classify_query">>
    /\ InitAux

AutoGenOn ==
    /\ pc = "autogen_node"
    /\ \E reply \in NetworkReplies :
          /\ Step("autogen_node", autogen_on(state, reply))
          /\ network_reply' = Some(reply)
          /\ handler_exc' = IF reply.kind = "raise" THEN Some(reply.text) ELSE NoExc
    /\ UNCHANGED <<query_engine, llm_response, billing_call, session, auth,
                   request, worker, kb>>

NextAutoGen == AutoGenOn

SpecAutoGen == InitAutoGen /\ [][NextAutoGen]_vars

----------------------------------------------------------------------------
(* langchain_node and process_service_query on their own: queries with and *)
(* without telecom words, off-topic words and greetings                    *)

ServiceQueries ==
    {"", "hi", " Hello\n", "thank you", "Tell me a joke",
     "what about the weather", "is the weather bad for my signal",
     "a funny story about my data plan", "Which plan is best for roaming?",
     "UPGRADE", "My 5G is slow", "hello, any family plan?", "anything else"}

InitService ==
    /\ InitAux
    /\ pc = "langchain_node"
    /\ state \in {dict_set(initial_state(q, ci), "classification",
                            "service_recommendation") :
                     q \in ServiceQueries, ci \in CustomerInfos}
    /\ query_engine = None
    /\ llm_response = NoResponse
    /\ handler_exc = NoExc
    /\ handled = FALSE
    /\ propagated = NoExc
    /\ billing_call = None
    /\ executed = <<"classify_query">>

NextService == LangChain

SpecService == InitService /\ [][NextService]_vars

----------------------------------------------------------------------------
(* authenticate_customer on its own: identifiers and databases *)

AuthInputs ==
    {"admin", "Admin", "ADMIN", "aDmIn", "administrator", "admin ", "",
     "CUST001", "cust001", "Cust001", "CUST002", "CUST999", " CUST001",
     "CUST0011"}

Authenticate ==
    /\ \E db \in Databases, customer_id \in AuthInputs :
          auth' = AuthCall(db, customer_id)
    /\ UNCHANGED <<pc, state, query_engine, llm_response, handler_exc, handled,
                   propagated, billing_call, executed, session, request,
                   worker, kb, network_reply>>

NextAuth == Authenticate

SpecAuth == Init /\ [][NextAuth]_vars

----------------------------------------------------------------------------
(* route_query on its own: every value the classification key may hold *)

dict_del(d, k) == [x \in (DOMAIN d) \ {k} |-> d[x]]

RouteLabels ==
    allowed \cup {"", "unknown", "BILLING_ACCOUNT", " off_topic", "billing"}

RouteStates ==
    {dict_set(initial_state(q, ci), "classification", c) :
        q \in Queries, ci \in CustomerInfos, c \in RouteLabels}
    \cup {dict_del(initial_state(q, ci), "classification") :
        q \in Queries, ci \in CustomerInfos}

InitRoute ==
    /\ InitAux
    /\ pc = "route_query"
    /\ state \in RouteStates
    /\ query_engine = None
    /\ llm_response = NoResponse
    /\ handler_exc = NoExc
    /\ handled = FALSE
    /\ propagated = NoExc
    /\ billing_call = None
    /\ executed = <<"classify_query">>

NextRoute == RouteQuery

SpecRoute == InitRoute /\ [][NextRoute]_vars

----------------------------------------------------------------------------
(* formulate_response on its own: states with and without a handler result *)

FormulateResponses ==
    {EmptyDict, OneEntry("crew_ai", ""), OneEntry("fallback", fallback_greeting)}

FormulateStates ==
    LET withLabel ==
            {dict_set(initial_state(q, ci), "classification", c) :
                q \in Queries, ci \in CustomerInfos, c \in allowed}
            \cup {dict_del(initial_state(q, ci), "classification") :
                q \in Queries, ci \in CustomerInfos}
    IN {dict_set(st, "intermediate_responses", r) :
            st \in withLabel, r \in FormulateResponses}
       \cup {dict_del(st, "intermediate_responses") : st \in withLabel}

InitFormulate ==
    /\ InitAux
    /\ pc = "formulate_response"
    /\ state \in FormulateStates
    /\ query_engine = None
    /\ llm_response = NoResponse
    /\ handler_exc = NoExc
    /\ handled = FALSE
    /\ propagated = NoExc
    /\ billing_call = None
    /\ executed = <<"classify_query">>

NextFormulate == FormulateResponse

SpecFormulate == InitFormulate /\ [][NextFormulate]_vars

----------------------------------------------------------------------------
(* Properties *)

FiveLabels ==
    {"billing_account", "network_troubleshooting", "service_recommendation",
     "knowledge_retrieval", "off_topic"}

Classified == pc \notin {"idle", "classify_query"}

\* C1: once classify_query has run, state.classification is one of the five
\* labels, whatever the query and whatever the model call returned or raised.
C1_ClassificationInLabelSet ==
    Classified => state.classification \in FiveLabels

C1_Witness ==
    /\ pc = "route_query"
    /\ state.query = ""
    /\ llm_response.kind = "ok"
    /\ llm_response.content = "unknown"
    /\ state.classification = "knowledge_retrieval"

AllWhitespace(s) == \A i \in 1..Len(s) : CharAt(s, i) \in Whitespace

\* t is content without its leading and trailing whitespace, lower-cased
IsTrimmedLower(t, content) ==
    \E a \in 0..Len(content), b \in 0..Len(content) :
        /\ a + b <= Len(content)
        /\ AllWhitespace(SubSeq(content, 1, a))
        /\ AllWhitespace(SubSeq(content, Len(content) - b + 1, Len(content)))
        /\ LET mid == SubSeq(content, a + 1, Len(content) - b) IN
              /\ mid # "" => /\ CharAt(mid, 1) \notin Whitespace
                             /\ CharAt(mid, Len(mid)) \notin Whitespace
              /\ Len(t) = Len(mid)
              /\ \A k \in 1..Len(mid) : CharAt(t, k) = lower_char(CharAt(mid, k))

\* C2: when the model answers with text, the classification is the answer
\* trimmed and lower-cased if that is one of the five labels, and
\* knowledge_retrieval for every other answer; nothing is raised.
C2_CoerceToDefault ==
    (pc = "route_query" /\ llm_response.kind = "ok") =>
        /\ propagated = NoExc
        /\ IF \E l \in FiveLabels : IsTrimmedLower(l, llm_response.content)
           THEN IsTrimmedLower(state.classification, llm_response.content)
           ELSE state.classification = "knowledge_retrieval"

C2_Witness ==
    /\ pc = "route_query"
    /\ llm_response.kind = "ok"
    /\ llm_response.content = " OFF_TOPIC\n"
    /\ state.classification = "off_topic"

\* C3: when the classifier's model call raises, classify_query changes only
\* classification, to knowledge_retrieval, and the graph goes on to routing.
C3_ClassifierErrorCaught ==
    [][(pc = "classify_query" /\ llm_response'.kind = "raise") =>
          /\ state' = [state EXCEPT !.classification = "knowledge_retrieval"]
          /\ pc' = "route_query"
          /\ propagated' = NoExc]_vars

C3_Witness ==
    /\ pc = "route_query"
    /\ llm_response.kind = "raise"
    /\ llm_response.content = "Request timed out."
    /\ state.query = "My 5G is slow"
    /\ state.classification = "knowledge_retrieval"
    /\ state.error = None

\* the handler the claim names for each label
HandlerFor(classification) ==
    CASE classification = "billing_account"         -> "crew_ai_node"
      [] classification = "network_troubleshooting" -> "autogen_node"
      [] classification = "service_recommendation"  -> "langchain_node"
      [] classification = "knowledge_retrieval"     -> "llamaindex_node"
      [] OTHER                                      -> "fallback_handler"

\* C4: the node route_query selects is HandlerFor of the classification
\* (missing read as ""), whatever the query and the customer context.
C4_RouteTotal ==
    pc # "route_query" =>
        pc = HandlerFor(dict_get(state, "classification", ""))

C4_Witness ==
    /\ pc = "fallback_handler"
    /\ "classification" \notin DOMAIN state
    /\ state.query = "Why is my bill higher this month?"

HandlersRun == SelectSeq(executed, LAMBDA n : n \in HandlerNodes)

\* C5: at most one handler node runs in a graph.invoke, and when the run is
\* past its handler stage exactly one has run, once: the one named for the
\* classification.
C5_ExactlyOneHandler ==
    /\ Len(HandlersRun) <= 1
    /\ pc \in {"formulate_response", "END", "raised"} =>
          HandlersRun = <<HandlerFor(state.classification)>>

C5_Witness ==
    /\ pc = "END"
    /\ executed = <<"classify_query", "autogen_node", "formulate_response">>

\* C6: at END final_response is a non-empty string.
C6_FinalResponseNonEmpty ==
    pc = "END" => state.final_response # ""

C6_Witness ==
    /\ pc = "END"
    /\ state.intermediate_responses = OneEntry("crew_ai", "")
    /\ state.final_response # ""

StartsWith(s, prefix) ==
    Len(s) >= Len(prefix) /\ SubSeq(s, 1, Len(prefix)) = prefix

\* C7: when the handler's entry in intermediate_responses is the empty
\* string, final_response is built on the placeholder text.
C7_PlaceholderForEmptyText ==
    pc = "END" =>
        \A k \in DOMAIN state.intermediate_responses :
            state.intermediate_responses[k] = "" =>
                StartsWith(state.final_response, placeholder)

\* C8: when the call below a handler raised an exception with detail e,
\* final_response does not contain e.
C8_NoExceptionTextInResponse ==
    (pc = "END" /\ handler_exc # NoExc /\ handler_exc # Some("")) =>
        ~Contains(state.final_response, handler_exc[1])

\* C9: no exception leaves graph.invoke.
C9_NoErrorPropagates ==
    propagated = NoExc /\ pc # "raised"

DomainHandlers ==
    {"crew_ai_node", "autogen_node", "langchain_node", "llamaindex_node"}

\* C10: at the end of a request served by a domain handler, error is a
\* non-empty string if the handler took its failure branch and None if it
\* did not.
C10_ErrorRecordsHandledFailure ==
    (pc = "END" /\ \E i \in DOMAIN executed : executed[i] \in DomainHandlers) =>
        IF handled THEN state.error \notin {None, Some("")}
                   ELSE state.error = None

\* wording that tells the user what to do next
GuidancePhrases ==
    {"support", "Support", "contact", "Contact", "try again", "Restart"}

HandlerTexts ==
    {state.intermediate_responses[k] : k \in DOMAIN state.intermediate_responses}

\* C11: the text a domain handler leaves after a handled failure names a
\* next step: troubleshooting steps or a way to reach support.
C11_FailureTextHasGuidance ==
    (pc \in {"formulate_response", "END"} /\ handled) =>
        \A t \in HandlerTexts : any_in(GuidancePhrases, t)

\* C12: the nodes of a request run in the order classify_query, one handler,
\* formulate_response, each at most once; a handler is entered only after
\* classification, formulate_response only after a handler, and nothing is
\* entered again after a handler has run, whether it failed or not.
C12_FixedStageOrder ==
    /\ pc \in {"idle", "classify_query"} => executed = <<>>
    /\ pc \in {"route_query"} \cup HandlerNodes => executed = <<"classify_query">>
    /\ pc \in {"formulate_response", "raised"} =>
          /\ Len(executed) = 2
          /\ executed[1] = "classify_query"
          /\ executed[2] \in HandlerNodes
    /\ pc = "END" =>
          /\ Len(executed) = 3
          /\ executed[1] = "classify_query"
          /\ executed[2] \in HandlerNodes
          /\ executed[3] = "formulate_response"

C12_Witness ==
    /\ pc = "END"
    /\ handled
    /\ executed = <<"classify_query", "crew_ai_node", "formulate_response">>

EndsWith(s, suffix) ==
    Len(s) >= Len(suffix) /\ SubSeq(s, Len(s) - Len(suffix) + 1, Len(s)) = suffix

AfterClassify == {"route_query", "formulate_response"} \cup HandlerNodes

\* C13: after classify_query no step of the request changes
\* state.classification, and the Query Type tag formulate_response writes
\* names that label.
C13_ClassificationWrittenOnce ==
    [][(pc \in AfterClassify) =>
          /\ (state').classification = state.classification
          /\ (pc = "formulate_response" =>
                 EndsWith((state').final_response,
                          "*Query Type: " \o state.classification \o "*"))]_vars

C13_Witness ==
    /\ pc = "END"
    /\ handled
    /\ state.classification = "billing_account"
    /\ EndsWith(state.final_response, "*Query Type: billing_account*")

Stages == {"classify_query"} \cup AfterClassify

\* C14: no step of a request changes state.query or state.customer_info
\* (a missing customer_info key stays missing), on success and failure paths.
C14_QueryAndCustomerInfoFrozen ==
    [][(pc \in Stages) =>
          /\ (state').query = state.query
          /\ ("customer_info" \in DOMAIN state') = ("customer_info" \in DOMAIN state)
          /\ get_customer_info(state') = get_customer_info(state)]_vars

C14_Witness ==
    /\ pc = "END"
    /\ executed[2] = "fallback_handler"
    /\ state.query = "Tell me a joke"
    /\ "customer_info" \in DOMAIN state
    /\ dict_get(state.customer_info.dict, "customer_id", "") = "CUST001"

\* the key each handler node writes its text under
KeyFor(node) ==
    CASE node = "crew_ai_node"     -> "crew_ai"
      [] node = "autogen_node"     -> "autogen"
      [] node = "langchain_node"   -> "langchain"
      [] node = "llamaindex_node"  -> "llamaindex"
      [] node = "fallback_handler" -> "fallback"

\* C15: once a handler node has returned, intermediate_responses has exactly
\* one entry, under the key of the handler that ran, whether the handler
\* succeeded or took its failure branch.
C15_OneIntermediateResponse ==
    pc \in {"formulate_response", "END"} =>
        DOMAIN state.intermediate_responses = {KeyFor(executed[2])}

C15_Witness ==
    /\ pc = "formulate_response"
    /\ handled
    /\ executed[2] = "langchain_node"
    /\ DOMAIN state.intermediate_responses = {"langchain"}

Marker(classification) == "*Query Type: " \o classification \o "*"

\* C16: formulate_response sets final_response to the text of the single
\* intermediate_responses entry followed by the marker naming the
\* classification, and changes no other field of the state.
C16_FormulateAppendsMarker ==
    [][(pc = "formulate_response") =>
          \E k \in DOMAIN state.intermediate_responses :
             LET text == state.intermediate_responses[k]
                 marker == Marker(state.classification)
                 final == (state').final_response
             IN /\ DOMAIN state.intermediate_responses = {k}
                /\ Len(final) >= Len(text) + Len(marker)
                /\ StartsWith(final, text)
                /\ EndsWith(final, marker)
                /\ [state' EXCEPT !.final_response = ""]
                      = [state EXCEPT !.final_response = ""]]_vars

C16_Witness ==
    /\ pc = "END"
    /\ executed[2] = "autogen_node"
    /\ state.classification = "network_troubleshooting"
    /\ StartsWith(state.final_response, state.intermediate_responses["autogen"])
    /\ EndsWith(state.final_response, Marker("network_troubleshooting"))

NoHandlerResult ==
    \/ "intermediate_responses" \notin DOMAIN state
    \/ DOMAIN state.intermediate_responses = {}

\* C17: for a state whose intermediate_responses is empty or missing,
\* formulate_response returns (it does not raise) a final_response made of
\* the "I couldn't generate a response." placeholder and the marker naming
\* the classification ("unknown" when there is none).
C17_PlaceholderWhenNoResult ==
    (pc # "formulate_response" /\ NoHandlerResult) =>
        /\ pc = "END"
        /\ propagated = NoExc
        /\ state.final_response =
              "I couldn't generate a response." \o "\n\n" \o
              Marker(dict_get(state, "classification", "unknown"))

C17_Witness ==
    /\ pc = "END"
    /\ "intermediate_responses" \notin DOMAIN state
    /\ dict_get(state, "classification", "") = "off_topic"
    /\ StartsWith(state.final_response, placeholder)

FallbackRan ==
    /\ pc \in {"formulate_response", "END"}
    /\ executed[2] = "fallback_handler"

FallbackText == state.intermediate_responses["fallback"]

JokeWords == {"joke", "funny", "laugh", "humor"}
GreetingWords ==
    {"hello", "hi", "hey", "good morning", "good afternoon", "good evening"}
ThanksWords == {"thank", "thanks", "appreciate"}
FarewellWords == {"goodbye", "bye", "see you"}

\* a query that only says goodbye
FarewellOnly(q) ==
    /\ any_in(FarewellWords, q)
    /\ ~any_in(JokeWords \cup GreetingWords \cup ThanksWords, q)

\* C18 as stated: five categories, each with a message of its own, so a
\* farewell does not get the message a thanks gets.
C18_FiveDistinctMessages ==
    (FallbackRan /\ FarewellOnly(lower(state.query))) =>
        FallbackText # fallback_response("thanks")

FourMessages ==
    {fallback_joke, fallback_greeting, fallback_thanks, fallback_generic}

\* the message the source's fallback_handler returns for each query
FallbackOracle(q) ==
    CASE q \in {"Tell me a joke"} -> fallback_joke
      [] q \in {"hi", "Why is my bill higher this month?"} -> fallback_greeting
      [] q \in {"thanks, bye", "see you later", "GOODBYE"} -> fallback_thanks
      [] q \in {"", "My 5G is slow", "what about the weather"} -> fallback_generic

\* C18 (amended): fallback_handler returns one of four distinct canned
\* messages - joke, greeting, thanks-or-farewell, generic - chosen by
\* case-insensitive substring matching on the query alone, without any
\* external call.
C18_FourCannedMessages ==
    FallbackRan =>
        LET q == lower(state.query) IN
        /\ Cardinality(FourMessages) = 4
        /\ FallbackText \in FourMessages
        /\ FallbackText = fallback_joke => any_in(JokeWords, q)
        /\ FallbackText = fallback_greeting => any_in(GreetingWords, q)
        /\ FallbackText = fallback_thanks =>
              any_in(ThanksWords \cup FarewellWords, q)
        /\ FallbackText = fallback_generic =>
              ~any_in(JokeWords \cup GreetingWords \cup ThanksWords
                        \cup FarewellWords, q)
        /\ FallbackText = FallbackOracle(state.query)
        /\ handler_exc = NoExc /\ ~handled /\ billing_call = None

C18_Witness ==
    /\ FallbackRan
    /\ state.query = "GOODBYE"
    /\ FallbackText = fallback_thanks
    /\ "customer_info" \notin DOMAIN state

HiOffTopic ==
    /\ pc \in HandlerNodes \cup {"formulate_response", "END", "raised"}
    /\ state.query = "hi"
    /\ state.classification = "off_topic"

\* C19: the query "hi" classified off_topic is dispatched to
\* fallback_handler, which picks the greeting message, and final_response
\* is that message followed by the tag naming off_topic.
C19_HiGetsGreeting ==
    HiOffTopic =>
        /\ pc \in HandlerNodes => pc = "fallback_handler"
        /\ pc # "raised"
        /\ pc \in {"formulate_response", "END"} =>
              /\ executed[2] = "fallback_handler"
              /\ StartsWith(FallbackText, "\nHELLO AND WELCOME\n")
              /\ FallbackText = fallback_greeting
        /\ pc = "END" =>
              state.final_response =
                 fallback_greeting \o "\n\n" \o "*Query Type: off_topic*"

C19_Witness ==
    /\ pc = "END"
    /\ state.query = "hi"
    /\ state.classification = "off_topic"
    /\ "customer_info" \notin DOMAIN state
    /\ EndsWith(state.final_response, "*Query Type: off_topic*")

\* a billing_account request whose customer context is a dict (or left out,
\* which the node reads as an empty dict) and that went through crew_ai_node
BillingServed ==
    /\ pc \in {"formulate_response", "END"}
    /\ Len(executed) >= 2
    /\ executed[2] = "crew_ai_node"
    /\ state.classification = "billing_account"
    /\ get_customer_info(state).kind # "none"

ContextId ==
    LET info == get_customer_info(state).dict IN
    IF "customer_id" \in DOMAIN info THEN info["customer_id"] ELSE "Unknown"

BillingApology ==
    "Sorry, we encountered a billing system issue while processing: '"
    \o state.query \o "'. Our billing support team can assist further."

\* C20: for a billing_account request with customer context,
\* process_billing_query is called with the identifier of the context, or
\* with "Unknown" when the context has none; when it returns, final_response
\* is the returned text followed by the tag; when it raises, final_response
\* is the apology text followed by the tag and does not contain the
\* exception's text.
C20_BillingScenario ==
    BillingServed =>
        /\ billing_call # None =>
              /\ billing_call[1].customer_id = ContextId
              /\ billing_call[1].query = state.query
        /\ ~handled =>
              /\ billing_call # None
              /\ handler_exc = NoExc
              /\ state.intermediate_responses["crew_ai"] \in BillingTexts
              /\ pc = "END" =>
                    state.final_response =
                       state.intermediate_responses["crew_ai"] \o "\n\n"
                       \o "*Query Type: billing_account*"
        /\ handled =>
              /\ handler_exc # NoExc
              /\ state.intermediate_responses = OneEntry("crew_ai", BillingApology)
              /\ pc = "END" =>
                    /\ state.final_response =
                          BillingApology \o "\n\n" \o "*Query Type: billing_account*"
                    /\ handler_exc[1] # "" =>
                          ~Contains(state.final_response, handler_exc[1])

C20_Witness ==
    /\ pc = "END"
    /\ BillingServed
    /\ state.query = "Why is my bill higher this month?"
    /\ billing_call # None
    /\ billing_call[1].customer_id = "CUST001"
    /\ handled
    /\ handler_exc = Some("Request timed out.")

C20_WitnessUnknown ==
    /\ pc = "END"
    /\ BillingServed
    /\ billing_call # None
    /\ billing_call[1].customer_id = "Unknown"
    /\ ~handled
    /\ state.intermediate_responses["crew_ai"] # ""

\* the spellings of the sentinel, letter by letter
IsAdminCasing(s) ==
    /\ Len(s) = 5
    /\ CharAt(s, 1) \in {"a", "A"}
    /\ CharAt(s, 2) \in {"d", "D"}
    /\ CharAt(s, 3) \in {"m", "M"}
    /\ CharAt(s, 4) \in {"i", "I"}
    /\ CharAt(s, 5) \in {"n", "N"}

\* C21: authenticate_customer answers every casing of "admin" with the
\* admin profile and without a lookup; any other identifier gets the stored
\* row, tagged user_type customer, when the database is reachable and holds
\* a row with exactly that customer_id, and None otherwise.
C21_AuthenticateContract ==
    auth # None =>
        LET a == auth[1]
            exact == {r \in a.db.customers : r.customer_id = a.customer_id}
        IN IF IsAdminCasing(a.customer_id)
           THEN /\ a.result # None
                /\ a.result[1].user_type = "admin"
                /\ a.result[1].customer_id = "admin"
                /\ a.result[1].name = "Administrator"
                /\ a.lookups = 0
           ELSE IF a.db.ok /\ exact # {}
           THEN /\ a.result # None
                /\ a.result[1].user_type = "customer"
                /\ \E r \in exact :
                      \A k \in DOMAIN r : a.result[1][k] = r[k]
                /\ a.lookups = 1
           ELSE a.result = None

\* a mixed-case sentinel while the table holds a row spelled the same way
C21_Witness ==
    /\ auth # None
    /\ auth[1].customer_id = "Admin"
    /\ auth[1].db = Database(TRUE, {Asha, Eve})
    /\ auth[1].result = Some(admin_profile)

\* a customer identifier in the wrong case, and a failed lookup
C21_WitnessNotFound ==
    /\ auth # None
    /\ auth[1].customer_id \in {"cust001", "CUST001"}
    /\ Asha \in auth[1].db.customers
    /\ auth[1].result = None

C23_EveryRequestTerminates ==
    (pc = "classify_query") ~>
        (pc = "END" /\ dict_get(state, "final_response", "") # "")

\* C24: route_query always sees one of the five labels, so its default is
\* never what sends a request to fallback_handler; fallback_handler runs
\* only for requests classified off_topic.
C24_DefaultRouteUnreachable ==
    /\ pc = "route_query" =>
          /\ "classification" \in DOMAIN state
          /\ state.classification \in
                {"billing_account", "network_troubleshooting",
                 "service_recommendation", "knowledge_retrieval", "off_topic"}
          /\ state.classification \in DOMAIN mapping
    /\ (pc = "fallback_handler"
        \/ \E i \in 1..Len(executed) : executed[i] = "fallback_handler") =>
          state.classification = "off_topic"

\* route_query about to send a request to fallback_handler after an answer
\* that had to be trimmed and lower-cased to be the label
C24_Witness ==
    /\ pc = "route_query"
    /\ llm_response.kind = "ok"
    /\ llm_response.content \notin allowed
    /\ state.classification = "off_topic"
    /\ route_query(state) = "fallback_handler"

\* C25: the engine is built at most once in a process, and an engine in
\* place is never assigned again, also when two threads are inside
\* _ensure_query_engine at the same time.
C25_EngineBuiltOnce ==
    /\ kb.engines_created <= 1
    /\ ~kb.replaced
    /\ ~kb.replaced_in_use

\* the sequential half of the claim: a call that starts after the engine is
\* in place goes straight to the query
C25_LaterCallsReuse ==
    [][\A t \in Threads :
          (worker[t] = "check" /\ query_engine # None /\ worker'[t] # "check")
             => (worker'[t] = "query" /\ query_engine' = query_engine /\ kb' = kb)]_vars

HasJoke == any_in(JokeWords, lower(state.query))
HasGreeting == any_in(GreetingWords, lower(state.query))
HasThanksOrFarewell == any_in(ThanksWords \cup FarewellWords, lower(state.query))

\* C26: fallback_handler tries the joke list, then the greeting list, then
\* the thanks/farewell list, and the first list with a word in the query
\* decides the message; a query with no listed word gets the generic one.
C26_FirstMatchWins ==
    (pc = "formulate_response" /\ executed = <<"classify_query", "fallback_handler">>) =>
        /\ HasJoke => FallbackText = fallback_joke
        /\ (~HasJoke /\ HasGreeting) => FallbackText = fallback_greeting
        /\ (~HasJoke /\ ~HasGreeting /\ HasThanksOrFarewell) =>
              FallbackText = fallback_thanks
        /\ (~HasJoke /\ ~HasGreeting /\ ~HasThanksOrFarewell) =>
              FallbackText = fallback_generic

\* a query with a word of each list, answered with the joke message
C26_Witness ==
    /\ pc = "formulate_response"
    /\ state.query = "Hello! Know a funny one? Thanks"
    /\ HasJoke /\ HasGreeting /\ HasThanksOrFarewell
    /\ StartsWith(FallbackText, "\nAPPRECIATE YOUR INTEREST\n")

\* a greeting that also says goodbye, answered with the greeting message
C26_WitnessGreeting ==
    /\ pc = "formulate_response"
    /\ state.query = "hello and goodbye"
    /\ FallbackText = fallback_greeting

\* C27: after any sequence of chat submissions chat_history alternates
\* user, assistant: every submission added one user message and then one
\* assistant message.
C27_HistoryAlternates ==
    LET history == session.chat_history IN
    /\ Len(history) % 2 = 0
    /\ \A i \in 1..Len(history) :
          history[i].role = IF i % 2 = 1 THEN "user" ELSE "assistant"

\* the same for the submissions made while the session has a graph: what
\* graph.invoke returns or raises becomes the assistant message
C27_AnsweredWhenGraphLoaded ==
    [][(session.graph # None /\ session'.graph # None
        /\ Len(session'.chat_history) > Len(session.chat_history))
          => /\ Len(session'.chat_history) = Len(session.chat_history) + 2
             /\ session'.chat_history[Len(session.chat_history) + 1].role = "user"
             /\ session'.chat_history[Len(session.chat_history) + 2].role = "assistant"]_vars

ProfileFields == {"customer_id", "name", "email", "phone", "plan_id"}

\* the session shows nothing of a login
LoggedOut(ss) ==
    /\ ~ss.authenticated
    /\ ss.user_type = None
    /\ \A f \in ProfileFields : ss[f] = None
    /\ ss.chat_history = <<>>

\* the session holds the profile of a row of the customers table
HoldsCustomer(ss) ==
    /\ ss.user_type = "customer"
    /\ \E row \in CustomersTable : \A f \in ProfileFields : ss[f] = row[f]

\* the profile a request was given is the one the session holds
SameProfile(st, ss) ==
    /\ DOMAIN st.customer_info.dict = ProfileFields
    /\ \A f \in ProfileFields : st.customer_info.dict[f] = ss[f]

\* C28: graph.invoke runs only in a session authenticated as a customer and
\* gets the profile stored at login as customer_info; a session that is not
\* authenticated, whether it never logged in, failed to log in or logged
\* out, is in its initial state: no user_type, no profile field and no chat
\* message.
C28_SessionIsolation ==
    /\ ~session.authenticated =>
          /\ LoggedOut(session)
          /\ session = [initial_session EXCEPT !.graph = session.graph]
    /\ session.authenticated =>
          /\ session.user_type \in {"customer", "admin"}
          /\ session.user_type = "customer" => HoldsCustomer(session)
          /\ session.user_type = "admin" => session.chat_history = <<>>
    /\ request # None =>
          \E row \in CustomersTable :
             /\ DOMAIN request[1].customer_info.dict = ProfileFields
             /\ \A f \in ProfileFields : request[1].customer_info.dict[f] = row[f]
    /\ session.chat_history # <<>> =>
          /\ session.authenticated
          /\ HoldsCustomer(session)
          /\ (\E i \in 1..Len(session.chat_history) :
                 session.chat_history[i].role = "assistant") =>
                (request # None /\ SameProfile(request[1], session))

\* the same step by step: what a failed login, a logout and a chat
\* submission change
C28_SessionSteps ==
    [][/\ (~session.authenticated /\ ~(session').authenticated)
            => session' = session
       /\ (session.authenticated /\ ~(session').authenticated)
            => session' = [initial_session EXCEPT !.graph = session.graph]
       /\ (~session.authenticated /\ (session').authenticated)
            => (session').chat_history = <<>>
       /\ request' # request
            => /\ session.authenticated /\ HoldsCustomer(session)
               /\ SameProfile((request')[1], session)
               /\ SameProfile((request')[1], session')
      ]_vars

\* a second customer logged in after the first one chatted and logged out
C28_Witness ==
    /\ session.authenticated
    /\ session.customer_id = "CUST002"
    /\ session.chat_history = <<>>
    /\ request # None
    /\ request[1].customer_info.dict["customer_id"] = "CUST001"

\* a reply autogen_node accepts: a str of at least 20 characters once trimmed
ValidReply(reply) == reply.kind = "str" /\ Len(strip(reply.text)) >= 20

AutoGenText == state.intermediate_responses["autogen"]

\* what the claim says of a reply once autogen_node is through with it
AutoGenHandled(reply) ==
    IF ValidReply(reply)
    THEN /\ pc = "formulate_response"
         /\ ~handled
         /\ state.intermediate_responses = OneEntry("autogen", reply.text)
         /\ state.error = None
    ELSE /\ pc = "formulate_response"
         /\ handled
         /\ DOMAIN state.intermediate_responses = {"autogen"}
         /\ StartsWith(AutoGenText, "\nNETWORK TROUBLESHOOTING ANALYSIS\n")
         /\ state.error # None
         /\ state.error[1] # ""
         /\ reply.kind # "raise" =>
               /\ state.error = Some("AutoGen error: Invalid or empty AutoGen response")
               /\ EndsWith(AutoGenText,
                           "Technical Note: Invalid or empty AutoGen response\n")

C29_ReplyValidationWithContext ==
    (network_reply # None /\ get_customer_info(state).kind # "none")
        => AutoGenHandled(network_reply[1])

\* a reply of 19 characters between blanks, answered with the template
C29_WitnessShort ==
    /\ network_reply = Some(Reply("str", "  1234567890123456789  "))
    /\ pc = "formulate_response"
    /\ handled
    /\ state.error = Some("AutoGen error: Invalid or empty AutoGen response")

\* a reply of exactly 20 characters, stored as it is
C29_WitnessValid ==
    /\ network_reply = Some(Reply("str", " 12345678901234567890\n"))
    /\ pc = "formulate_response"
    /\ AutoGenText = " 12345678901234567890\n"

\* the query has a telecom word and is more than a bare greeting
IsServiceQuery(q) ==
    /\ \E k \in telecom_keywords : Contains(lower(q), k)
    /\ strip(lower(q)) \notin
          {"hi", "hello", "hey", "good morning", "good afternoon",
           "good evening", "bye", "goodbye", "thanks", "thank you"}

LangChainText == state.intermediate_responses["langchain"]

\* C30: is_telecom_related(query) is true exactly for a query with a telecom
\* word that is not a bare greeting, whatever off-topic words it has; a
\* query that fails the test gets the canned handle_fallback_query message
\* whatever the plan database and the model would have done, and only a
\* query that passes it gets their answer or their failure.
C30_ServiceGate ==
    /\ \A q \in ServiceQueries : is_telecom_related(q) <=> IsServiceQuery(q)
    /\ (pc = "formulate_response" /\ executed = <<"classify_query", "langchain_node">>) =>
          IF IsServiceQuery(state.query)
          THEN /\ LangChainText # handle_fallback_query(state.query)
               /\ \/ /\ ~handled /\ handler_exc = NoExc
                     /\ StartsWith(LangChainText, "[*] **Service Recommendation**")
                  \/ /\ ~handled /\ handler_exc # NoExc
                     /\ StartsWith(LangChainText, "\n[x] ERROR IN SERVICE RECOMMENDATION")
                  \/ /\ handled /\ handler_exc # NoExc
                     /\ LangChainText = langchain_fallback(state.query)
          ELSE /\ LangChainText = handle_fallback_query(state.query)
               /\ ~handled
               /\ handler_exc = NoExc
               /\ state.error = None

\* a query with an off-topic word and telecom words, answered by the model
C30_Witness ==
    /\ pc = "formulate_response"
    /\ state.query = "a funny story about my data plan"
    /\ any_in(non_telecom_keywords, lower(state.query))
    /\ StartsWith(LangChainText, "[*] **Service Recommendation**")

\* a padded greeting, answered with the canned greeting
C30_WitnessGreeting ==
    /\ pc = "formulate_response"
    /\ state.query = " Hello\n"
    /\ LangChainText = handle_fallback_query(state.query)

====
